---- MODULE Spec2Model ----
(***************************************************************************)
(* Model of pareto_google_sheets_streamlit_clinica.py: a Streamlit page    *)
(* that loads a Google Sheets CSV export, tallies comma-separated          *)
(* multi-select answers per question and renders one Pareto chart (bars +  *)
(* cumulative percentage) per question through an embedded Plotly script.  *)
(*                                                                         *)
(* Strings are sequences of one-character strings.  Five specifications    *)
(* share the variables:                                                    *)
(*   SpecWrap   - wrap_text_br on bounded texts                            *)
(*   SpecPareto - contar_respostas_multipla + criar_figura_pareto_dict     *)
(*   SpecLoad   - carregar_planilha_google_sheets on bounded URLs          *)
(*   Spec       - the module-level page render with the hardcoded URL      *)
(*   SpecChart  - the embedded chart script against user clicks            *)
(***************************************************************************)
EXTENDS Integers, Sequences, FiniteSets, TLC

VARIABLES
    pc,          \* position of the running script / function
    txt,         \* wrap_text_br: argument txt
    max_chars,   \* wrap_text_br: argument max_chars
    palavras,    \* wrap_text_br: str(txt).split()
    linhas,      \* wrap_text_br: finished lines
    linha,       \* wrap_text_br: line being filled
    k,           \* wrap_text_br: index of the next word of the for loop
    resultado,   \* wrap_text_br: returned string ("<br>" is one symbol)
    coluna,      \* contar_respostas_multipla: df[coluna], a sequence of cells
    contador,    \* the Counter: <<label, count>> pairs in insertion order
    fig,         \* criar_figura_pareto_dict: what the figure holds
    url,         \* carregar_planilha_google_sheets: argument url
    fetched,     \* the csv_url of every pd.read_csv call made
    excecao,     \* the exception raised inside the try block, or "none"
    df,          \* the loaded table, or None
    erros,       \* st.error messages shown, in order
    sucesso,     \* st.success shown
    perguntas,   \* df.columns[1:8], as column positions (1 = first column)
    i,           \* outer loop variable of the render loop
    j,           \* inner loop variable of the render loop
    charts,      \* the chart components rendered, in order
    handlers,    \* chart script: window.open_/close_/download_ are defined
    scriptTag,   \* chart script: the <script src=plotly> tag: none, loading, loaded, failed
    plotly,      \* chart script: window.Plotly is defined
    modal,       \* chart script: style.display of the modal, "none" or "flex"
    inlineRenders, \* Plotly.newPlot calls made on chart-<key>
    bigRenders,  \* Plotly.newPlot calls made on chart-big-<key>
    listeners,   \* resize listeners registered by render
    downloads,   \* Plotly.downloadImage calls made
    earlyCalls,  \* calls of render or download_ that ran with Plotly undefined
    clicks       \* button clicks so far

wrapVars == <<txt, max_chars, palavras, linhas, linha, k, resultado>>
paretoVars == <<coluna, contador, fig>>
loadVars == <<url, fetched, excecao, df, erros>>
pageVars == <<sucesso, perguntas, i, j, charts>>

chartVars == <<handlers, scriptTag, plotly, modal, inlineRenders, bigRenders, listeners,
               downloads, earlyCalls, clicks>>

vars == <<pc, wrapVars, paretoVars, loadVars, pageVars, chartVars>>

(***************************************************************************)
(* Bounds                                                                  *)
(***************************************************************************)
MaxTextLen == 5
MaxWidth == 3
ColBudget == 6
MaxPre == 3
MaxPost == 2
MaxCols == 9
MaxRows == 2
MaxClicks == 4

(***************************************************************************)
(* Python string helpers                                                   *)
(***************************************************************************)
Whitespace == {" ", "\t"}

RECURSIVE Strings(_, _)
\* all strings over alphabet of length <= n
Strings(alphabet, n) ==
    IF n = 0 THEN {<<>>}
    ELSE LET shorter == Strings(alphabet, n - 1)
         IN  shorter \cup {Append(s, c) : s \in {t \in shorter : Len(t) = n - 1}, c \in alphabet}

RECURSIVE lstrip(_)
lstrip(s) == IF s /= <<>> /\ Head(s) \in Whitespace THEN lstrip(Tail(s)) ELSE s

RECURSIVE rstrip(_)
rstrip(s) ==
    IF s /= <<>> /\ s[Len(s)] \in Whitespace THEN rstrip(SubSeq(s, 1, Len(s) - 1)) ELSE s

\* mutant of strip: only the left end is trimmed
StripLeftOnly(s) == lstrip(s)

\* str.strip(): whitespace removed at both ends
strip(s) == rstrip(lstrip(s))

RECURSIVE SplitWsFrom(_, _, _)
\* scanner behind str.split(): cur is the word being read, acc the words read
SplitWsFrom(s, cur, acc) ==
    IF s = <<>> THEN (IF cur = <<>> THEN acc ELSE Append(acc, cur))
    ELSE IF Head(s) \in Whitespace
         THEN SplitWsFrom(Tail(s), <<>>, IF cur = <<>> THEN acc ELSE Append(acc, cur))
         ELSE SplitWsFrom(Tail(s), Append(cur, Head(s)), acc)

\* str.split() with no argument: runs of whitespace separate, no empty words
split_ws(s) == SplitWsFrom(s, <<>>, <<>>)

RECURSIVE join(_, _)
\* sep.join(parts)
join(sep, parts) ==
    IF parts = <<>> THEN <<>>
    ELSE IF Len(parts) = 1 THEN parts[1]
    ELSE parts[1] \o sep \o join(sep, Tail(parts))

(***************************************************************************)
(* wrap_text_br                                                            *)
(***************************************************************************)
\* mutant of WrapFits: the joining space is not counted
WrapFitsNoSpace(l, p, m) == Len(l) + Len(p) <= m

\* the test of the loop body: does word p still fit on the line
WrapFits(l, p, m) == Len(l) + Len(p) + (IF l /= <<>> THEN 1 ELSE 0) <= m

WrapTexts == Strings({" ", "\t", "a", "b"}, MaxTextLen)

\* the variables of the other specifications, at rest
WrapIdle ==
    /\ txt = <<>> /\ max_chars = 0 /\ palavras = <<>> /\ linhas = <<>>
    /\ linha = <<>> /\ k = 0 /\ resultado = <<>>

NoFig == [kind |-> "none", labels |-> <<>>, valores |-> <<>>, p_acum |-> <<>>, divs |-> <<>>]

ParetoIdle == coluna = <<>> /\ contador = <<>> /\ fig = NoFig

None == [isNone |-> TRUE, nrows |-> 0, cols |-> <<>>]

LoadIdle == url = <<>> /\ fetched = <<>> /\ excecao = "none" /\ df = None /\ erros = <<>>

PageIdle == sucesso = FALSE /\ perguntas = <<>> /\ i = 0 /\ j = 0 /\ charts = <<>>

ChartIdle ==
    /\ handlers = FALSE /\ scriptTag = "none" /\ plotly = FALSE /\ modal = "none"
    /\ inlineRenders = 0 /\ bigRenders = 0 /\ listeners = 0 /\ downloads = 0
    /\ earlyCalls = 0 /\ clicks = 0

InitWrap ==
    /\ ParetoIdle /\ LoadIdle /\ PageIdle /\ ChartIdle
    /\ pc = "wrap_loop"
    /\ txt \in WrapTexts
    /\ max_chars \in 1..MaxWidth
    /\ palavras = split_ws(txt)
    /\ linhas = <<>>
    /\ linha = <<>>
    /\ k = 1
    /\ resultado = <<>>

\* one iteration of "for p in palavras"
WrapStep ==
    /\ pc = "wrap_loop"
    /\ k <= Len(palavras)
    /\ LET p == palavras[k]
       IN  IF WrapFits(linha, p, max_chars)
           THEN /\ linha' = strip(linha \o <<" ">> \o p)
                /\ UNCHANGED linhas
           ELSE /\ linhas' = (IF linha /= <<>> THEN Append(linhas, linha) ELSE linhas)
                /\ linha' = p
    /\ k' = k + 1
    /\ UNCHANGED <<pc, txt, max_chars, palavras, resultado, paretoVars, loadVars, pageVars, chartVars>>

\* after the loop: flush the last line and join with <br>
WrapReturn ==
    /\ pc = "wrap_loop"
    /\ k > Len(palavras)
    /\ linhas' = (IF linha /= <<>> THEN Append(linhas, linha) ELSE linhas)
    /\ resultado' = join(<<"<br>">>, linhas')
    /\ pc' = "wrap_done"
    /\ UNCHANGED <<txt, max_chars, palavras, linha, k, paretoVars, loadVars, pageVars, chartVars>>

NextWrap == WrapStep \/ WrapReturn

SpecWrap == InitWrap /\ [][NextWrap]_vars

(***************************************************************************)
(* contar_respostas_multipla                                               *)
(*                                                                         *)
(* A cell is the text of a CSV field.  pd.read_csv loads an empty field as *)
(* NaN, so the empty sequence stands for the missing cell and a loaded     *)
(* table holds no empty string.                                            *)
(***************************************************************************)
isna(cell) == cell = <<>>

\* mutant of dropna: missing cells are kept
DropnaKeepsAll(col) == col

\* Series.dropna(): the cells that are not missing, in order
dropna(col) == SelectSeq(col, LAMBDA c : ~isna(c))

RECURSIVE IndexOf(_, _, _)
\* least i >= from with sep at s[i..], or 0
IndexOf(s, sep, from) ==
    IF from + Len(sep) - 1 > Len(s) THEN 0
    ELSE IF SubSeq(s, from, from + Len(sep) - 1) = sep THEN from
    ELSE IndexOf(s, sep, from + 1)

RECURSIVE split(_, _)
\* str.split(sep): cut at the occurrences of sep, found left to right
split(s, sep) ==
    LET at == IndexOf(s, sep, 1)
    IN  IF at = 0 THEN <<s>>
        ELSE <<SubSeq(s, 1, at - 1)>> \o split(SubSeq(s, at + Len(sep), Len(s)), sep)

\* opcoes = [op.strip() for op in str(resposta).split(",")]
Opcoes(resposta) ==
    LET parts == split(resposta, <<",">>)
    IN  [n \in 1..Len(parts) |-> strip(parts[n])]

RECURSIVE TodasRespostas(_)
\* the list built by the for loop over df[coluna].dropna()
TodasRespostas(cells) ==
    IF cells = <<>> THEN <<>>
    ELSE Opcoes(Head(cells)) \o TodasRespostas(Tail(cells))

\* Counter.__setitem__ behind Counter.update: one more of item
CounterAdd(c, item) ==
    IF \E n \in 1..Len(c) : c[n][1] = item
    THEN [n \in 1..Len(c) |-> IF c[n][1] = item THEN <<item, c[n][2] + 1>> ELSE c[n]]
    ELSE Append(c, <<item, 1>>)

RECURSIVE CounterOf(_, _)
\* Counter(iterable): keys in the order first seen
CounterOf(items, c) ==
    IF items = <<>> THEN c ELSE CounterOf(Tail(items), CounterAdd(c, Head(items)))

contar_respostas_multipla(col) == CounterOf(TodasRespostas(dropna(col)), <<>>)

(***************************************************************************)
(* criar_figura_pareto_dict                                                *)
(***************************************************************************)
\* mutant of InsertByCount: an item goes before the items of equal count
InsertBeforeTies(sorted, item) ==
    LET before == Cardinality({n \in 1..Len(sorted) : sorted[n][2] > item[2]})
    IN  SubSeq(sorted, 1, before) \o <<item>> \o SubSeq(sorted, before + 1, Len(sorted))

\* where sorted(..., key=count, reverse=True) puts item: after the items
\* already placed whose count is not smaller (the sort is stable)
InsertByCount(sorted, item) ==
    LET before == Cardinality({n \in 1..Len(sorted) : sorted[n][2] >= item[2]})
    IN  SubSeq(sorted, 1, before) \o <<item>> \o SubSeq(sorted, before + 1, Len(sorted))

RECURSIVE SortByCount(_, _)
SortByCount(items, sorted) ==
    IF items = <<>> THEN sorted
    ELSE SortByCount(Tail(items), InsertByCount(sorted, Head(items)))

\* Counter.most_common()
most_common(c) == SortByCount(c, <<>>)

RECURSIVE SumSeq(_)
SumSeq(s) == IF s = <<>> THEN 0 ELSE Head(s) + SumSeq(Tail(s))

\* mutant of cumsum: the running sum leaves out the current element
CumsumExclusive(v) == [n \in 1..Len(v) |-> SumSeq(SubSeq(v, 1, n - 1))]

\* np.cumsum
cumsum(v) == [n \in 1..Len(v) |-> SumSeq(SubSeq(v, 1, n))]

\* 100 * np.cumsum(totais) / totais.sum(), kept as exact fractions num/den
PAcum(valores) ==
    LET cs == cumsum(valores)
    IN  [n \in 1..Len(valores) |-> [num |-> 100 * cs[n], den |-> SumSeq(valores)]]

\* "if not counter"
CounterVazio(c) == c = <<>>

criar_figura_pareto_dict(c) ==
    IF CounterVazio(c)
    THEN [kind |-> "Sem dados para exibir", labels |-> <<>>, valores |-> <<>>,
          p_acum |-> <<>>, divs |-> <<>>]
    ELSE LET mc == most_common(c)
             labels == [n \in 1..Len(mc) |-> mc[n][1]]
             valores == [n \in 1..Len(mc) |-> mc[n][2]]
         IN  [kind |-> "pareto", labels |-> labels, valores |-> valores,
              p_acum |-> PAcum(valores), divs |-> <<SumSeq(valores)>>]

(***************************************************************************)
(* SpecPareto: one column through the tally and the figure                 *)
(***************************************************************************)
CellChars == {"A", "B", ",", " "}

RECURSIVE Columns(_)
\* the columns whose cells, one terminator each, fit in budget b
Columns(b) ==
    IF b <= 0 THEN {<<>>}
    ELSE {<<>>} \cup
         UNION { {<<c>> \o rest : rest \in Columns(b - Len(c) - 1)} :
                 c \in Strings(CellChars, b - 1) }

\* the column of the documented example
ExampleColumn ==
    << <<"A", ",", " ", "B">>, <<"B">>, <<>>,
       <<"A", ",", " ", " ", "B", " ", ",", " ", "C">> >>

\* a column of counts 5, 3, 2
ExampleCounts ==
    << <<"A", ",", "A", ",", "A", ",", "A", ",", "A">>,
       <<"B", ",", "C", ",", "B", ",", "C", ",", "B">> >>

\* a column whose labels tie behind one the sort moves to the front
ExampleTies == << <<"C", ",", " ", "A">>, <<"B", ",", " ", "A">> >>

InitPareto ==
    /\ WrapIdle /\ LoadIdle /\ PageIdle /\ ChartIdle
    /\ pc = "contar"
    /\ coluna \in Columns(ColBudget) \cup {ExampleColumn, ExampleCounts, ExampleTies}
    /\ contador = <<>>
    /\ fig = NoFig

Contar ==
    /\ pc = "contar"
    /\ contador' = contar_respostas_multipla(coluna)
    /\ pc' = "criar_figura"
    /\ UNCHANGED <<coluna, fig, wrapVars, loadVars, pageVars, chartVars>>

CriarFigura ==
    /\ pc = "criar_figura"
    /\ fig' = criar_figura_pareto_dict(contador)
    /\ pc' = "figura_pronta"
    /\ UNCHANGED <<coluna, contador, wrapVars, loadVars, pageVars, chartVars>>

NextPareto == Contar \/ CriarFigura

SpecPareto == InitPareto /\ [][NextPareto]_vars

(***************************************************************************)
(* carregar_planilha_google_sheets                                         *)
(*                                                                         *)
(* In a URL the words "https:", "docs.google.com", "spreadsheets",         *)
(* "pub?output=csv" and "export?format=csv" are one symbol each: none of   *)
(* them holds a "/", and the code only matches or emits them whole.        *)
(***************************************************************************)
PublishedMark == <<"docs.google.com", "/", "spreadsheets", "/", "d", "/", "e", "/">>
SheetMark == <<"docs.google.com", "/", "spreadsheets", "/", "d", "/">>

\* Python's "needle in haystack" on strings
Contains(s, needle) == IndexOf(s, needle, 1) /= 0

IsPublishedUrl(u) == Contains(u, PublishedMark)

\* mutant of IsSheetUrl: the test stops short of the "d/" of the share link
IsSheetUrlLoose(u) == Contains(u, <<"docs.google.com", "/", "spreadsheets", "/">>)

IsSheetUrl(u) == Contains(u, SheetMark)

\* f"https://docs.google.com/spreadsheets/d/e/{published_id}/pub?output=csv"
PublishedCsvUrl(id) ==
    <<"https:", "/", "/">> \o PublishedMark \o id \o <<"/", "pub?output=csv">>

\* f"https://docs.google.com/spreadsheets/d/{sheet_id}/export?format=csv"
SheetCsvUrl(id) ==
    <<"https:", "/", "/">> \o SheetMark \o id \o <<"/", "export?format=csv">>

\* url.split(sep)[1].split("/")[0]; "IndexError" when the [1] does not exist
IdAfter(u, sep) ==
    LET parts == split(u, sep)
    IN  IF Len(parts) < 2 THEN <<"IndexError">> ELSE split(parts[2], <<"/">>)[1]

\* the tables pd.read_csv may return: c columns of r cells, the cells taken
\* in turn from the samples (the empty sample is the missing cell)
CellSamples ==
    << <<"A", ",", " ", "B">>, <<"B">>, <<>>, <<"B", " ", ",", "A", ",", "C">>, <<"C">> >>

Table(c, r) ==
    [isNone |-> FALSE, nrows |-> r,
     cols |-> [x \in 1..c |-> [y \in 1..r |-> CellSamples[((x + 2 * y) % Len(CellSamples)) + 1]]]]

\* (a CSV with no column at all makes pd.read_csv raise)
Tables == {Table(c, r) : c \in 1..MaxCols, r \in 0..MaxRows}

\* what pd.read_csv may raise
Exceptions == {"HTTP Error 404: Not Found", "Error tokenizing data"}

InvalidUrlError == [kind |-> "URL invalida", msg |-> "none"]

LoadError(e) == [kind |-> "Erro ao carregar dados", msg |-> e]

\* the body of the try block up to the call of pd.read_csv
Carregar ==
    /\ pc = "carregar"
    /\ IF IsPublishedUrl(url) \/ IsSheetUrl(url)
       THEN LET sep == IF IsPublishedUrl(url) THEN <<"/", "d", "/", "e", "/">>
                       ELSE <<"/", "d", "/">>
                id == IdAfter(url, sep)
            IN  IF id = <<"IndexError">>
                THEN /\ excecao' = "list index out of range"
                     /\ erros' = Append(erros, LoadError(excecao'))
                     /\ pc' = "returned"
                     /\ UNCHANGED fetched
                ELSE /\ fetched' = Append(fetched,
                            IF IsPublishedUrl(url) THEN PublishedCsvUrl(id)
                            ELSE SheetCsvUrl(id))
                     /\ pc' = "read_csv"
                     /\ UNCHANGED <<excecao, erros>>
       ELSE /\ erros' = Append(erros, InvalidUrlError)
            /\ pc' = "returned"
            /\ UNCHANGED <<fetched, excecao>>
    /\ UNCHANGED <<url, df, wrapVars, paretoVars, pageVars, chartVars>>

\* pd.read_csv returns a table, which the function returns
ReadCsvOk ==
    /\ pc = "read_csv"
    /\ \E t \in Tables : df' = t
    /\ pc' = "returned"
    /\ UNCHANGED <<url, fetched, excecao, erros, wrapVars, paretoVars, pageVars, chartVars>>

\* mutant of ReadCsvFail: the failed read is tried again
ReadCsvFailRetry ==
    /\ pc = "read_csv"
    /\ Len(fetched) < 3
    /\ \E e \in Exceptions : excecao' = e
    /\ fetched' = Append(fetched, fetched[1])
    /\ UNCHANGED <<pc, url, df, erros, wrapVars, paretoVars, pageVars, chartVars>>

\* pd.read_csv raises: the except clause reports and returns None
ReadCsvFail ==
    /\ pc = "read_csv"
    /\ \E e \in Exceptions :
          /\ excecao' = e
          /\ erros' = Append(erros, LoadError(e))
    /\ df' = None
    /\ pc' = "returned"
    /\ UNCHANGED <<url, fetched, wrapVars, paretoVars, pageVars, chartVars>>

UrlPre == Strings({"/", "d", "x"}, MaxPre)
UrlCore == {<<>>, <<"docs.google.com", "/", "spreadsheets", "/">>, SheetMark, PublishedMark}
UrlPost == Strings({"/", "e", "x"}, MaxPost)

Urls == {a \o b \o c : a \in UrlPre, b \in UrlCore, c \in UrlPost}

InitLoad ==
    /\ WrapIdle /\ ParetoIdle /\ PageIdle /\ ChartIdle
    /\ pc = "carregar"
    /\ url \in Urls
    /\ fetched = <<>>
    /\ excecao = "none"
    /\ df = None
    /\ erros = <<>>

NextLoad == Carregar \/ ReadCsvOk \/ ReadCsvFail

SpecLoad == InitLoad /\ [][NextLoad]_vars

(***************************************************************************)
(* The module-level script: load, then one chart per question              *)
(***************************************************************************)
\* URL_GOOGLE_SHEETS; "2PACX" stands for the published id
URL_GOOGLE_SHEETS ==
    <<"https:", "/", "/">> \o PublishedMark \o <<"2PACX", "/", "pub?output=csv">>

\* seq[a:b] of Python, a and b counted from 0
PySlice(seq, a, b) == SubSeq(seq, a + 1, IF b < Len(seq) THEN b ELSE Len(seq))

\* mutant of Perguntas: the slice has no upper end
PerguntasNoEnd(t) == PySlice([x \in 1..Len(t.cols) |-> x], 1, Len(t.cols))

\* perguntas = df.columns[1:8]
Perguntas(t) == PySlice([x \in 1..Len(t.cols) |-> x], 1, 8)

Init ==
    /\ WrapIdle /\ ParetoIdle /\ PageIdle /\ ChartIdle
    /\ pc = "carregar"
    /\ url = URL_GOOGLE_SHEETS
    /\ fetched = <<>>
    /\ excecao = "none"
    /\ df = None
    /\ erros = <<>>

\* "if df is not None: ... else: st.error(...)"
PageBranch ==
    /\ pc = "returned"
    /\ IF ~df.isNone
       THEN /\ sucesso' = TRUE
            /\ perguntas' = Perguntas(df)
            /\ pc' = "render"
            /\ UNCHANGED erros
       ELSE /\ erros' = Append(erros, [kind |-> "Nao foi possivel carregar", msg |-> "none"])
            /\ pc' = "page_done"
            /\ UNCHANGED <<sucesso, perguntas>>
    /\ UNCHANGED <<i, j, charts, url, fetched, excecao, df, wrapVars, paretoVars, chartVars>>

\* one pass of "for j in range(2)" inside "for i in range(0, len(perguntas), 2)"
RenderStep ==
    /\ pc = "render"
    /\ i < Len(perguntas)
    /\ IF i + j < Len(perguntas)
       THEN LET col_raw == perguntas[i + j + 1]
            IN  /\ coluna' = df.cols[col_raw]
                /\ contador' = contar_respostas_multipla(coluna')
                /\ fig' = criar_figura_pareto_dict(contador')
                /\ charts' = Append(charts,
                       [key |-> <<i, j>>, numero |-> i + j + 1, col |-> col_raw, fig |-> fig'])
       ELSE UNCHANGED <<coluna, contador, fig, charts>>
    /\ IF j = 0 THEN /\ j' = 1 /\ UNCHANGED i
                ELSE /\ j' = 0 /\ i' = i + 2
    /\ UNCHANGED <<pc, sucesso, perguntas, loadVars, wrapVars, chartVars>>

\* the outer loop is exhausted: the script ends
PageEnd ==
    /\ pc = "render"
    /\ i >= Len(perguntas)
    /\ pc' = "page_done"
    /\ UNCHANGED <<pageVars, loadVars, wrapVars, paretoVars, chartVars>>

Next == Carregar \/ ReadCsvOk \/ ReadCsvFail \/ PageBranch \/ RenderStep \/ PageEnd

Spec == Init /\ [][Next]_vars

(***************************************************************************)
(* The script embedded in each chart component (its own iframe, so         *)
(* window.Plotly is undefined until the script tag added by ensurePlotly   *)
(* has loaded).  The buttons are in the page before the script runs.       *)
(***************************************************************************)
\* render(id, big) run with window.Plotly defined or not: Plotly.newPlot and
\* addEventListener, or a ReferenceError at Plotly.newPlot
Render(big, available) ==
    IF available
    THEN /\ inlineRenders' = inlineRenders + (IF big THEN 0 ELSE 1)
         /\ bigRenders' = bigRenders + (IF big THEN 1 ELSE 0)
         /\ listeners' = listeners + 1
         /\ UNCHANGED earlyCalls
    ELSE /\ earlyCalls' = earlyCalls + 1
         /\ UNCHANGED <<inlineRenders, bigRenders, listeners>>

InitChart ==
    /\ WrapIdle /\ ParetoIdle /\ LoadIdle /\ PageIdle
    /\ pc = "chart_parse"
    /\ handlers = FALSE
    /\ scriptTag = "none"
    /\ plotly = FALSE
    /\ modal = "none"
    /\ inlineRenders = 0 /\ bigRenders = 0 /\ listeners = 0
    /\ downloads = 0 /\ earlyCalls = 0 /\ clicks = 0

\* the immediately invoked function: defines the handlers, then
\* ensurePlotly(() => render("chart-<key>", false))
RunScript ==
    /\ pc = "chart_parse"
    /\ handlers' = TRUE
    /\ IF plotly
       THEN /\ Render(FALSE, TRUE)
            /\ UNCHANGED scriptTag
       ELSE /\ scriptTag' = "loading"
            /\ UNCHANGED <<inlineRenders, bigRenders, listeners, earlyCalls>>
    /\ pc' = "chart_ready"
    /\ UNCHANGED <<plotly, modal, downloads, clicks, wrapVars, paretoVars, loadVars, pageVars>>

\* s.onload: the library has run, cb renders the inline chart
ScriptOnload ==
    /\ scriptTag = "loading"
    /\ scriptTag' = "loaded"
    /\ plotly' = TRUE
    /\ Render(FALSE, TRUE)
    /\ UNCHANGED <<pc, handlers, modal, downloads, clicks, wrapVars, paretoVars, loadVars,
                   pageVars>>

\* the CDN cannot be reached: no handler is set for it
ScriptError ==
    /\ scriptTag = "loading"
    /\ scriptTag' = "failed"
    /\ UNCHANGED <<pc, handlers, plotly, modal, inlineRenders, bigRenders, listeners,
                   downloads, earlyCalls, clicks, wrapVars, paretoVars, loadVars, pageVars>>

\* "Ampliar": onclick="open_<key>()"; the open modal covers the button
ClickOpen ==
    /\ clicks < MaxClicks
    /\ modal = "none"
    /\ clicks' = clicks + 1
    /\ IF handlers
       THEN /\ modal' = "flex"
            /\ Render(TRUE, plotly)
       ELSE UNCHANGED <<modal, inlineRenders, bigRenders, listeners, earlyCalls>>
    /\ UNCHANGED <<pc, handlers, scriptTag, plotly, downloads, wrapVars, paretoVars, loadVars,
                   pageVars>>

\* "Fechar": onclick="close_<key>()", a button of the modal
ClickClose ==
    /\ clicks < MaxClicks
    /\ modal = "flex"
    /\ clicks' = clicks + 1
    /\ modal' = "none"
    /\ UNCHANGED <<pc, handlers, scriptTag, plotly, inlineRenders, bigRenders, listeners,
                   downloads, earlyCalls, wrapVars, paretoVars, loadVars, pageVars>>

\* "Baixar PNG": onclick="download_<key>(big)", one button under the chart
\* (big = false) and one in the modal (big = true)
ClickDownload ==
    /\ clicks < MaxClicks
    /\ \E big \in BOOLEAN : big <=> modal = "flex"
    /\ clicks' = clicks + 1
    /\ IF handlers
       THEN IF plotly
            THEN downloads' = downloads + 1 /\ UNCHANGED earlyCalls
            ELSE earlyCalls' = earlyCalls + 1 /\ UNCHANGED downloads
       ELSE UNCHANGED <<downloads, earlyCalls>>
    /\ UNCHANGED <<pc, handlers, scriptTag, plotly, modal, inlineRenders, bigRenders,
                   listeners, wrapVars, paretoVars, loadVars, pageVars>>

NextChart ==
    RunScript \/ ScriptOnload \/ ScriptError \/ ClickOpen \/ ClickClose \/ ClickDownload

SpecChart == InitChart /\ [][NextChart]_vars

(***************************************************************************)
(* What the claims speak of, stated from the input alone                   *)
(***************************************************************************)
\* the words of a text: its maximal runs of non-whitespace, left to right
WordStarts(t) == {a \in 1..Len(t) : t[a] \notin Whitespace /\ (a = 1 \/ t[a - 1] \in Whitespace)}

WordEnd(t, a) ==
    CHOOSE b \in a..Len(t) :
        /\ \A n \in a..b : t[n] \notin Whitespace
        /\ b = Len(t) \/ t[b + 1] \in Whitespace

WordsOf(t) ==
    LET starts == WordStarts(t)
        nth(n) == CHOOSE a \in starts : Cardinality({b \in starts : b <= a}) = n
    IN  [n \in 1..Cardinality(starts) |-> SubSeq(t, nth(n), WordEnd(t, nth(n)))]

\* a line is words joined by single spaces
WellFormedLine(l) ==
    /\ l /= <<>>
    /\ l[1] /= " " /\ l[Len(l)] /= " "
    /\ \A n \in 1..Len(l) : l[n] /= "\t"
    /\ \A n \in 1..(Len(l) - 1) : ~(l[n] = " " /\ l[n + 1] = " ")

SingleWord(l) == \A n \in 1..Len(l) : l[n] /= " "

\* the fragments of a cell: the stretches between commas, blanks cut off both ends
Cuts(cell) == {0, Len(cell) + 1} \cup {n \in 1..Len(cell) : cell[n] = ","}

NextCut(cell, a) == CHOOSE b \in Cuts(cell) : b > a /\ \A c \in Cuts(cell) : c > a => b <= c

Trimmed(raw) ==
    LET solid == {n \in 1..Len(raw) : raw[n] \notin Whitespace}
    IN  IF solid = {} THEN <<>>
        ELSE SubSeq(raw, CHOOSE n \in solid : \A m \in solid : n <= m,
                         CHOOSE n \in solid : \A m \in solid : n >= m)

\* <<row, cut>>: the fragment of the cell of that row which starts after that cut
Occurrences(col) ==
    UNION { {<<r, a>> : a \in Cuts(col[r]) \ {Len(col[r]) + 1}} :
            r \in {q \in 1..Len(col) : col[q] /= <<>>} }

FragmentAt(col, o) ==
    Trimmed(SubSeq(col[o[1]], o[2] + 1, NextCut(col[o[1]], o[2]) - 1))

FragmentCount(col, label) ==
    Cardinality({o \in Occurrences(col) : FragmentAt(col, o) = label})

FragmentLabels(col) == {FragmentAt(col, o) : o \in Occurrences(col)}

\* o comes before q scanning top to bottom, each cell left to right
Earlier(o, q) == o[1] < q[1] \/ (o[1] = q[1] /\ o[2] < q[2])

FirstSeen(col, label) ==
    CHOOSE o \in Occurrences(col) :
        /\ FragmentAt(col, o) = label
        /\ \A q \in Occurrences(col) : FragmentAt(col, q) = label => (q = o \/ Earlier(o, q))

CounterKeys(c) == {c[n][1] : n \in 1..Len(c)}

Tallied == pc \in {"criar_figura", "figura_pronta"}

(***************************************************************************)
(* Claims                                                                  *)
(***************************************************************************)
\* C1: the tally maps each label to the number of comma-separated, trimmed
\* fragments equal to it over the non-empty cells, holds no other key, and
\* the documented example column tallies to exactly A:2, B:3, C:1.
C1_TallyCountsFragments ==
    Tallied =>
        /\ CounterKeys(contador) = FragmentLabels(coluna)
        /\ \A n \in 1..Len(contador) :
              /\ contador[n][2] = FragmentCount(coluna, contador[n][1])
              /\ \A m \in 1..Len(contador) : contador[m][1] = contador[n][1] => m = n
        /\ coluna = ExampleColumn =>
              /\ Len(contador) = 3
              /\ {contador[n] : n \in 1..3} = {<< <<"A">>, 2 >>, << <<"B">>, 3 >>, << <<"C">>, 1 >>}

C1_Witness ==
    /\ pc = "criar_figura"
    /\ coluna = ExampleColumn
    /\ contador = << << <<"A">>, 2 >>, << <<"B">>, 3 >>, << <<"C">>, 1 >> >>

\* C4: for a non-empty tally the cumulative-percentage series is as long as
\* the counts, its i-th element is 100 * (sum of the first i sorted counts) /
\* total, it never decreases, it ends at exactly 100, and counts 5,3,2 give
\* 50, 80, 100.
C4_CumulativePercent ==
    (pc = "figura_pronta" /\ contador /= <<>>) =>
        LET v == fig.valores
            p == fig.p_acum
            total == Cardinality(Occurrences(coluna))
        IN  /\ Len(p) = Len(v)
            /\ Len(p) >= 1
            /\ \A n \in 1..Len(p) :
                  /\ p[n].den = total
                  /\ p[n].num = (IF n = 1 THEN 0 ELSE p[n - 1].num) + 100 * v[n]
                  /\ n > 1 => p[n - 1].num * p[n].den <= p[n].num * p[n - 1].den
            /\ p[Len(p)].num = 100 * p[Len(p)].den
            /\ v = <<5, 3, 2>> =>
                  /\ p[1].num = 50 * p[1].den
                  /\ p[2].num = 80 * p[2].den
                  /\ p[3].num = 100 * p[3].den

C4_Witness ==
    /\ pc = "figura_pronta"
    /\ fig.valores = <<5, 3, 2>>
    /\ fig.p_acum = <<[num |-> 500, den |-> 10], [num |-> 800, den |-> 10],
                      [num |-> 1000, den |-> 10]>>

\* C5: an empty or all-missing column gives an empty tally, an empty tally
\* takes the "Sem dados para exibir" branch without reaching the division,
\* and the division is only reached with a total count above zero.
C5_NoDivisionByZero ==
    /\ (Tallied /\ \A r \in 1..Len(coluna) : coluna[r] = <<>>) => contador = <<>>
    /\ pc = "figura_pronta" =>
          /\ contador = <<>> => (fig.kind = "Sem dados para exibir" /\ fig.divs = <<>>)
          /\ \A n \in 1..Len(fig.divs) : fig.divs[n] > 0
          /\ fig.kind = "pareto" => Len(fig.divs) = 1

C5_Witness ==
    /\ pc = "figura_pronta"
    /\ Len(coluna) = 2
    /\ \A r \in 1..Len(coluna) : coluna[r] = <<>>
    /\ fig.kind = "Sem dados para exibir"

\* C8: the (label, count) sequence of the chart is a permutation of the
\* tally's entries, counts descending, and labels of equal count in the order
\* first seen scanning the column top to bottom, each cell left to right.
C8_SortedStable ==
    (pc = "figura_pronta" /\ contador /= <<>>) =>
        LET l == fig.labels
            v == fig.valores
        IN  /\ Len(l) = Len(v)
            /\ Len(l) = Cardinality(FragmentLabels(coluna))
            /\ {l[n] : n \in 1..Len(l)} = FragmentLabels(coluna)
            /\ \A n \in 1..Len(l) : v[n] = FragmentCount(coluna, l[n])
            /\ \A n \in 1..(Len(l) - 1) : v[n] >= v[n + 1]
            /\ \A n \in 1..(Len(l) - 1) :
                  v[n] = v[n + 1] =>
                      Earlier(FirstSeen(coluna, l[n]), FirstSeen(coluna, l[n + 1]))

\* a tie kept in first-seen order behind a label the sort moved to the front
C8_Witness ==
    /\ pc = "figura_pronta"
    /\ Len(fig.labels) = 3
    /\ fig.valores = <<2, 1, 1>>
    /\ fig.labels[1] = contador[2][1]
    /\ fig.labels[2] = contador[1][1]

\* C10: wrap_text_br keeps every word once and in order, makes no empty
\* line, and no line is longer than max_chars unless it is one single word.
C10_WrapKeepsWords ==
    pc = "wrap_done" =>
        /\ join(<<" ">>, linhas) = join(<<" ">>, WordsOf(txt))
        /\ \A n \in 1..Len(linhas) :
              /\ WellFormedLine(linhas[n])
              /\ Len(linhas[n]) <= max_chars \/ SingleWord(linhas[n])
        /\ resultado = join(<<"<br>">>, linhas)

C10_Witness ==
    /\ pc = "wrap_done"
    /\ Len(linhas) >= 2
    /\ \E n \in 1..Len(linhas) : ~SingleWord(linhas[n])
    /\ Len(WordsOf(txt)) = 3

\* a mark occurs somewhere in the URL
HasMark(u, mark) ==
    \E n \in 1..Len(u) :
        n + Len(mark) - 1 <= Len(u) /\ SubSeq(u, n, n + Len(mark) - 1) = mark

\* the path segment that follows the first occurrence of the mark
SegmentAfter(u, mark) ==
    LET at == CHOOSE n \in 1..Len(u) :
                  /\ n + Len(mark) - 1 <= Len(u)
                  /\ SubSeq(u, n, n + Len(mark) - 1) = mark
                  /\ \A m \in 1..(n - 1) : SubSeq(u, m, m + Len(mark) - 1) /= mark
        from == at + Len(mark)
        stops == {n \in from..Len(u) : u[n] = "/"} \cup {Len(u) + 1}
        to == CHOOSE n \in stops : \A m \in stops : n <= m
    IN  SubSeq(u, from, to - 1)

\* C2: a URL with neither recognized substring gets the "invalid URL" error,
\* no table, and no fetch is ever attempted.
C2_InvalidUrlNoFetch ==
    (~HasMark(url, PublishedMark) /\ ~HasMark(url, SheetMark)) =>
        /\ fetched = <<>>
        /\ df = None
        /\ excecao = "none"
        /\ pc \in {"carregar", "returned"}
        /\ pc = "returned" => erros = <<InvalidUrlError>>

C2_Witness ==
    /\ pc = "returned"
    /\ HasMark(url, <<"docs.google.com", "/", "spreadsheets", "/">>)
    /\ ~HasMark(url, SheetMark)
    /\ erros = <<InvalidUrlError>>
    /\ fetched = <<>>

\* C3: for a URL of a recognized shape the CSV URL fetched holds the path
\* segment that follows the recognized substring: .../d/e/<id>/pub?output=csv
\* for a published link (also when both substrings match), and
\* .../d/<id>/export?format=csv for a share link.
C3_CsvUrlHoldsId ==
    (pc /= "carregar" /\ (HasMark(url, PublishedMark) \/ HasMark(url, SheetMark))) =>
        /\ Len(fetched) = 1
        /\ fetched[1] =
              IF HasMark(url, PublishedMark)
              THEN <<"https:", "/", "/", "docs.google.com", "/", "spreadsheets", "/", "d", "/",
                     "e", "/">> \o SegmentAfter(url, PublishedMark) \o <<"/", "pub?output=csv">>
              ELSE <<"https:", "/", "/", "docs.google.com", "/", "spreadsheets", "/", "d", "/">>
                     \o SegmentAfter(url, SheetMark) \o <<"/", "export?format=csv">>

ChartsOf(c) == {n \in 1..Len(charts) : charts[n].col = c}

C7_FirstEightCharted ==
    (pc = "page_done" /\ ~df.isNone) =>
        \A c \in 1..Len(df.cols) :
            Cardinality(ChartsOf(c)) = (IF c <= 8 THEN 1 ELSE 0)

\* C7 (amended): every column from the second to the eighth gets exactly one
\* chart; the first column and the columns beyond the eighth get none.
C7_SecondToEighthCharted ==
    (pc = "page_done" /\ ~df.isNone) =>
        /\ \A c \in 1..Len(df.cols) :
              Cardinality(ChartsOf(c)) = (IF 2 <= c /\ c <= 8 THEN 1 ELSE 0)
        /\ \A n, m \in 1..Len(charts) : charts[n].key = charts[m].key => n = m

C7_Witness ==
    /\ pc = "page_done"
    /\ Len(df.cols) = 9
    /\ Len(charts) = 7
    /\ ChartsOf(1) = {} /\ ChartsOf(9) = {}

\* C9: no call of render or Plotly.downloadImage runs before the Plotly
\* library is available, and the inline chart is rendered exactly once after
\* the library becomes available.
C9_NoCallBeforePlotly ==
    /\ earlyCalls = 0
    /\ inlineRenders = (IF plotly THEN 1 ELSE 0)

====
